---- MODULE Spec2Model ----
(***************************************************************************)
(* A model of fastlib/thor/kdtree_builder.h: the generalized Partition     *)
(* function for cache arrays and the single-threaded hybrid kd-tree        *)
(* builder (KdTreeHybridBuilder::Doit, Build_, Split_).                    *)
(*                                                                         *)
(* Two entry points are modelled.  entry = "Partition": one call of the    *)
(* free function Partition on an arbitrary store, range and condition,     *)
(* run statement by statement.  entry = "Doit": one whole build, the       *)
(* recursion of Build_/Split_ kept on an explicit stack of frames; the     *)
(* Partition calls of Split_ run the same statements to completion.        *)
(*                                                                         *)
(* Indices are the program's 0-based indices; a store is a TLA+ sequence,  *)
(* so index i lives at position i + 1.  Coordinates are small integers and *)
(* split values are kept as exact fractions num/den.                       *)
(***************************************************************************)
EXTENDS Integers, Sequences, FiniteSets, TLC

\* ------------------------------------------------------------------ bounds
MaxN == 3          \* largest number of points in a store of arbitrary points
MaxCoord == 3      \* largest coordinate of a one-dimensional point

\* ------------------------------------------------------- program constants
BIG_BAD_NUMBER == 2000000000
EmptyWidth == -2   \* stands for hi - lo of an empty range (-DBL_MAX - DBL_MAX)

\* --------------------------------------------------------- input alphabets
Dims == {1, 2}                      \* vector lengths tried
LeafSizes == {1, 2}                 \* leaf_size parameter values tried
BlockSizes == {2, 4}                \* n_block_elems: a power of two
PeerCounts == {3}                   \* rpc::n_peers() values tried

Min(a, b) == IF a < b THEN a ELSE b
Max(a, b) == IF a > b THEN a ELSE b

\* All vectors of length dim: vectors of length 1 take every coordinate of
\* 0..MaxCoord, longer vectors the coordinates 0 and 1 in every dimension.
Vectors(dim) == [1..dim -> IF dim = 1 THEN 0..MaxCoord ELSE 0..1]

\* All stores of n points of length dim.
Stores(dim, n) == [1..n -> Vectors(dim)]

\* A store of n one-dimensional points in ascending order whose last point
\* lies far from the others: 0, 1, ..., n - 2, (n - 1)^2.
SkewedStore(n) ==
  [i \in 1..n |-> <<IF i < n THEN i - 1 ELSE (n - 1) * (n - 1)>>]

\* ------------------------------------------------------- DRange and Bound
\* A DRange is empty (InitEmpty: lo = DBL_MAX, hi = -DBL_MAX) or [lo, hi].
EmptyRange == [e |-> TRUE, lo |-> 0, hi |-> 0]

MkRange(lo, hi) == [e |-> FALSE, lo |-> lo, hi |-> hi]

\* DRange::operator|=(double)
RangeOrVal(r, x) ==
  IF r.e THEN MkRange(x, x) ELSE MkRange(Min(r.lo, x), Max(r.hi, x))

\* DRange::operator|=(const DRange&)
RangeOr(r, s) ==
  IF s.e THEN r
  ELSE IF r.e THEN s
  ELSE MkRange(Min(r.lo, s.lo), Max(r.hi, s.hi))

\* DRange::width(): hi - lo, which is negative for an empty range.
width(r) == IF r.e THEN EmptyWidth ELSE r.hi - r.lo

\* Bound::Init(dim) / Bound::Reset(): every dimension empty.
BoundInit(dim) == [d \in 1..dim |-> EmptyRange]

\* Bound::operator|=(const Vector&)
BoundOrVec(b, v) == [d \in DOMAIN b |-> RangeOrVal(b[d], v[d])]

\* Bound::operator|=(const Bound&)
BoundOr(b, c) == [d \in DOMAIN b |-> RangeOr(b[d], c[d])]

\* Split values are doubles; the model keeps them exact.  k = "fin" is the
\* fraction num/den (den > 0); the other kinds are the IEEE results of the
\* degenerate computations.
Fin(num, den) == [k |-> "fin", num |-> num, den |-> den]
NonFin(kind) == [k |-> kind, num |-> 0, den |-> 1]

\* DRange::mid(): (hi + lo) / 2; for an empty range (DBL_MAX - DBL_MAX) / 2.
mid(r) == IF r.e THEN Fin(0, 1) ELSE Fin(r.lo + r.hi, 2)

\* DRange::interpolate(factor) = factor * width() + lo with
\* factor = num / double(den), den >= 0.
interpolate(r, num, den) ==
  IF r.e
    THEN (IF den = 0 /\ num = 0 THEN NonFin("nan")
          ELSE IF num > 0 THEN NonFin("neginf")
          ELSE IF num < 0 THEN NonFin("posinf")
          ELSE NonFin("nan"))
  ELSE IF den = 0
    THEN (IF num = 0 \/ r.hi = r.lo THEN NonFin("nan")
          ELSE IF num > 0 THEN NonFin("posinf")
          ELSE NonFin("neginf"))
  ELSE Fin(num * (r.hi - r.lo) + r.lo * den, den)

\* ------------------------------------------------ HrectPartitionCondition
HrectPartitionCondition(dimension, value) ==
  [dimension |-> dimension, value |-> value]

\* is_left: vector.get(dimension) < value
is_left(splitcond, vector) ==
  LET x == vector[splitcond.dimension + 1]
      val == splitcond.value
  IN CASE val.k = "fin" -> x * val.den < val.num
       [] val.k = "posinf" -> TRUE
       [] OTHER -> FALSE

\* ------------------------------------------------------------- CacheArray
\* A Swap that copies one element over the other.
SwapOverwrites(points, i, j) == [points EXCEPT ![i + 1] = points[j + 1]]

\* points->Swap(i, j)
Swap(points, i, j) ==
  [points EXCEPT ![i + 1] = points[j + 1], ![j + 1] = points[i + 1]]

\* -------------------------------------------------------------- Partition
\* The state of one Partition call: the position in the function (pc), the
\* two cursors, the store, the two running bounds, the number of Swap calls
\* made, the set of indices written and the returned index.
\*   "left_scan"  the first inner for (;;)      (lines 37-46)
\*   "right_scan" the second inner for (;;)     (lines 48-57)
\*   "swap"       Swap, the assertion, right_i-- (lines 59-62)
\*   "return"     the function has returned ret
PartitionStart(begin, count, points, left_bound, right_bound) ==
  [pc |-> "left_scan",
   left_i |-> begin,
   right_i |-> begin + count - 1,
   points |-> points,
   left_bound |-> left_bound,
   right_bound |-> right_bound,
   swaps |-> 0,
   written |-> {},
   ret |-> -1]

\* A left scan that stops on the points it should pass.
LeftScanInverted(splitcond, st) ==
  IF st.left_i > st.right_i
    THEN [st EXCEPT !.pc = "return", !.ret = st.left_i]
  ELSE LET left_v == st.points[st.left_i + 1] IN
    IF is_left(splitcond, left_v)
      THEN [st EXCEPT !.right_bound = BoundOrVec(st.right_bound, left_v),
                      !.pc = "right_scan"]
      ELSE [st EXCEPT !.left_bound = BoundOrVec(st.left_bound, left_v),
                      !.left_i = st.left_i + 1]

\* One iteration of the left scan.
LeftScan(splitcond, st) ==
  IF st.left_i > st.right_i
    THEN [st EXCEPT !.pc = "return", !.ret = st.left_i]
  ELSE LET left_v == st.points[st.left_i + 1] IN
    IF ~is_left(splitcond, left_v)
      THEN [st EXCEPT !.right_bound = BoundOrVec(st.right_bound, left_v),
                      !.pc = "right_scan"]
      ELSE [st EXCEPT !.left_bound = BoundOrVec(st.left_bound, left_v),
                      !.left_i = st.left_i + 1]

\* A right scan that folds the point it halts on into the right bound.
RightScanMisfolds(splitcond, st) ==
  IF st.left_i > st.right_i
    THEN [st EXCEPT !.pc = "return", !.ret = st.left_i]
  ELSE LET right_v == st.points[st.right_i + 1] IN
    IF is_left(splitcond, right_v)
      THEN [st EXCEPT !.right_bound = BoundOrVec(st.right_bound, right_v),
                      !.pc = "swap"]
      ELSE [st EXCEPT !.right_bound = BoundOrVec(st.right_bound, right_v),
                      !.right_i = st.right_i - 1]

\* One iteration of the right scan.
RightScan(splitcond, st) ==
  IF st.left_i > st.right_i
    THEN [st EXCEPT !.pc = "return", !.ret = st.left_i]
  ELSE LET right_v == st.points[st.right_i + 1] IN
    IF is_left(splitcond, right_v)
      THEN [st EXCEPT !.left_bound = BoundOrVec(st.left_bound, right_v),
                      !.pc = "swap"]
      ELSE [st EXCEPT !.right_bound = BoundOrVec(st.right_bound, right_v),
                      !.right_i = st.right_i - 1]

\* A swap step that steps the right cursor inward without exchanging.
SwapStepNoExchange(st) ==
  [st EXCEPT !.swaps = st.swaps + 1,
             !.right_i = st.right_i - 1,
             !.pc = "left_scan"]

\* A swap step that steps both cursors inward.
SwapStepBothInward(st) ==
  [st EXCEPT !.points = Swap(st.points, st.left_i, st.right_i),
             !.swaps = st.swaps + 1,
             !.written = st.written \cup {st.left_i, st.right_i},
             !.left_i = st.left_i + 1,
             !.right_i = st.right_i - 1,
             !.pc = "left_scan"]

\* points->Swap(left_i, right_i); right_i--;  (left_i is not advanced)
SwapStep(st) ==
  [st EXCEPT !.points = Swap(st.points, st.left_i, st.right_i),
             !.swaps = st.swaps + 1,
             !.written = st.written \cup {st.left_i, st.right_i},
             !.right_i = st.right_i - 1,
             !.pc = "left_scan"]

\* One statement group of Partition.
PartitionStep(splitcond, st) ==
  CASE st.pc = "left_scan" -> LeftScan(splitcond, st)
    [] st.pc = "right_scan" -> RightScan(splitcond, st)
    [] st.pc = "swap" -> SwapStep(st)
    [] OTHER -> st

RECURSIVE PartitionRun(_, _)
PartitionRun(splitcond, st) ==
  IF st.pc = "return" THEN st
  ELSE PartitionRun(splitcond, PartitionStep(splitcond, st))

\* The whole call, as Split_ uses it.
Partition(splitcond, begin, count, points, left_bound, right_bound) ==
  PartitionRun(splitcond,
               PartitionStart(begin, count, points, left_bound, right_bound))

\* ------------------------------------------------------------ the builder
\* C++ integer division truncates toward zero.
CDiv(a, b) == IF a >= 0 THEN a \div b ELSE -((-a) \div b)

\* FindBoundingBox_: folds the count points from begin into bound.
RECURSIVE FindBoundingBox_(_, _, _, _)
FindBoundingBox_(points, begin, count, bound) ==
  IF count <= 0 THEN bound
  ELSE FindBoundingBox_(points, begin + 1, count - 1,
                        BoundOrVec(bound, points[begin + 1]))

\* Build_'s short loop to find the widest dimension: d runs from 0 and a
\* dimension replaces the candidate only when strictly wider.  acc is
\* <<split_dim, max_width>>, started at <<BIG_BAD_NUMBER, -1>>.
RECURSIVE WidestFrom(_, _, _)
WidestFrom(bound, d, acc) ==
  IF d >= Len(bound) THEN acc[1]
  ELSE LET w == width(bound[d + 1]) IN
    WidestFrom(bound, d + 1, IF w > acc[2] THEN <<d, w>> ELSE acc)

WidestDimension(bound) == WidestFrom(bound, 0, <<BIG_BAD_NUMBER, -1>>)

\* A goal that is not rounded to a block.
GoalColUnrounded(begin_col, end_col, begin_rank, end_rank, n_points, peers, chunk_size) ==
  IF end_rank <= begin_rank + 1
    THEN (begin_col + end_col) \div 2
    ELSE ((((begin_rank + end_rank) \div 2) * 2 * n_points + peers) \div peers) \div 2

\* Split_'s goal index: the index midpoint on one machine, else the share of
\* the global point count given to the ranks below split_rank; then rounded
\* to the nearest block.
GoalCol(begin_col, end_col, begin_rank, end_rank, n_points, peers, chunk_size) ==
  LET split_rank == (begin_rank + end_rank) \div 2
      goal == IF end_rank <= begin_rank + 1
                THEN (begin_col + end_col) \div 2
                ELSE ((split_rank * 2 * n_points + peers) \div peers) \div 2
  IN ((goal + chunk_size \div 2) \div chunk_size) * chunk_size

\* The test that guards GiveOwnership in Split_.  parent_begin is
\* parent->begin(), or -1 when there is no parent.
GivesOwnership(node_begin, parent_begin, block_elems) ==
  /\ node_begin % block_elems = 0
  /\ (parent_begin = -1 \/ parent_begin # node_begin)

\* The leaf assertion of Build_: begin and end - 1 are in the same block.
SameBlock(begin, end, block_elems) ==
  CDiv(begin, block_elems) = CDiv(end - 1, block_elems)

\* A frame of Build_ (and of the Split_ it calls).  node = 0 until the node
\* is allocated; parent = 0 is NULL; decomp_pp is whether the out-pointer
\* is non-NULL; left_decomp and right_decomp are decomposition node ids,
\* 0 for NULL.
\*   "Build_"     called, nothing executed yet
\*   "Split_"     stopped in Split_ (the build crashed or went undefined)
\*   "loop"       at the head of Split_'s goal-seeking for (;;)
\*   "call_left"  the split is decided (left at once for "in_left")
\*   "in_left"    the first recursive call is running
\*   "in_right"   the second recursive call is running
\*   "finish"     Build_ from the accumulation into the parent to its end
BuildFrame(begin_col, end_col, begin_rank, end_rank, bound, parent, decomp_pp) ==
  [pc |-> "Build_",
   node |-> 0,
   parent |-> parent,
   begin_col |-> begin_col,
   end_col |-> end_col,
   begin_rank |-> begin_rank,
   end_rank |-> end_rank,
   bound |-> bound,
   decomp_pp |-> decomp_pp,
   split_dim |-> 0,
   split_col |-> 0,
   goal_col |-> 0,
   current_range |-> EmptyRange,
   final_left_bound |-> BoundInit(Len(bound)),
   final_right_bound |-> BoundInit(Len(bound)),
   left_decomp |-> 0,
   right_decomp |-> 0]

\* A node as set_range and the bound assignment of Build_ leave it.  stat is
\* the statistic (the number of points it has gathered), folds the number of
\* Accumulate calls made on it, post the number of Postprocess calls and
\* post_at the value of folds at the last Postprocess call.
NewNode(begin_col, end_col, bound, parent, begin_rank) ==
  [begin |-> begin_col,
   count |-> end_col - begin_col,
   bound |-> BoundOr(BoundInit(Len(bound)), bound),
   leaf |-> FALSE,
   child |-> <<0, 0>>,
   parent |-> parent,
   owner |-> begin_rank,
   stat |-> 0,
   folds |-> 0,
   post |-> 0,
   post_at |-> -1]

\* Split_ for a node of at most chunk_size points: one midpoint partition,
\* or the index midpoint when the split dimension has zero width.
\* Gives the frame and the store afterwards.
SplitSmall(f, begin, end, points) ==
  LET split_val == mid(f.current_range) IN
  IF width(f.current_range) = 0
    THEN [frame |-> [f EXCEPT !.split_col = (begin + end) \div 2,
                              !.pc = "call_left"],
          points |-> points]
    ELSE LET r == Partition(HrectPartitionCondition(f.split_dim, split_val),
                            f.begin_col, f.end_col - f.begin_col, points,
                            f.final_left_bound, f.final_right_bound)
         IN [frame |-> [f EXCEPT !.split_col = r.ret,
                                 !.final_left_bound = r.left_bound,
                                 !.final_right_bound = r.right_bound,
                                 !.pc = "call_left"],
             points |-> r.points]

\* One iteration of Split_'s goal-seeking loop.
SplitIterate(f, points) ==
  LET split_val == interpolate(f.current_range, f.goal_col - f.begin_col,
                               f.end_col - f.begin_col)
      dim == Len(f.bound)
      r == Partition(HrectPartitionCondition(f.split_dim, split_val),
                     f.begin_col, f.end_col - f.begin_col, points,
                     BoundInit(dim), BoundInit(dim))
      split_col == r.ret
      left_bound == r.left_bound
      right_bound == r.right_bound
      g == f
  IN [points |-> r.points,
      frame |->
        IF split_col = f.goal_col
          THEN [g EXCEPT !.final_left_bound = BoundOr(f.final_left_bound, left_bound),
                         !.final_right_bound = BoundOr(f.final_right_bound, right_bound),
                         !.split_col = split_col,
                         !.pc = "call_left"]
        ELSE IF split_col < f.goal_col
          THEN LET flb == BoundOr(f.final_left_bound, left_bound)
                   cr == right_bound[f.split_dim + 1]
               IN IF width(cr) = 0
                    THEN [g EXCEPT !.final_right_bound = BoundOr(f.final_right_bound, right_bound),
                                   !.final_left_bound = BoundOr(flb, right_bound),
                                   !.current_range = cr,
                                   !.split_col = f.goal_col,
                                   !.pc = "call_left"]
                    ELSE [g EXCEPT !.final_left_bound = flb,
                                   !.current_range = cr,
                                   !.split_col = split_col,
                                   !.begin_col = split_col]
        ELSE LET frb == BoundOr(f.final_right_bound, right_bound)
                 cr == left_bound[f.split_dim + 1]
             IN IF width(cr) = 0
                  THEN [g EXCEPT !.final_left_bound = BoundOr(f.final_left_bound, left_bound),
                                 !.final_right_bound = BoundOr(frb, left_bound),
                                 !.current_range = cr,
                                 !.split_col = f.goal_col,
                                 !.pc = "call_left"]
                  ELSE [g EXCEPT !.final_right_bound = frb,
                                 !.current_range = cr,
                                 !.split_col = split_col,
                                 !.end_col = split_col]]

\* ------------------------------------------------------------------ state
VARIABLES
  entry,          \* "Partition" or "Doit": which entry point this run took
  pin,            \* the arguments of the Partition call (entry = "Partition")
  part,           \* the state of the Partition call (entry = "Partition")
  dim_,           \* length of the vectors
  leaf_size_,     \* fx parameter leaf_size
  chunk_size_,    \* points_.n_block_elems()
  n_points_,      \* end_index - begin_index
  n_peers,        \* rpc::n_peers()
  rank,           \* rpc::rank()
  points_,        \* the point store
  points0,        \* the point store when Doit was entered
  nodes_,         \* the node store: nodes in allocation order, ids from 1
  stack,          \* the frames of the Build_ calls in progress, innermost last
  decomps,        \* the decomposition nodes created, ids from 1
  decomp_root,    \* Doit's decomp_root, 0 until the root Build_ returns
  gives,          \* the GiveOwnership calls made, in order
  assert_failed,  \* some leaf failed the same-block assertion
  status          \* "running", "done" or "crashed"

vars == <<entry, pin, part, dim_, leaf_size_, chunk_size_, n_points_, n_peers,
          rank, points_, points0, nodes_, stack, decomps, decomp_root, gives,
          assert_failed, status>>

buildVars == <<dim_, leaf_size_, chunk_size_, n_points_, n_peers, rank,
               points_, points0, nodes_, stack, decomps, decomp_root, gives,
               assert_failed, status>>

config == <<entry, pin, part, dim_, leaf_size_, chunk_size_, n_points_,
            n_peers, rank, points0>>

\* Nodes allocated before the model stops following non-leaf outcomes of the
\* read of a fresh node's count.
MaxNodes == 2 * MaxN + 1

\* Values the count of a freshly allocated node may hold: one that no leaf
\* size is below and, for every leaf size, one just above it.  Only the
\* comparison with leaf_size_ is ever made of the value.
StaleCounts == {0} \cup {l + 1 : l \in LeafSizes}

\* Split values handed to a stand-alone Partition call: 0 and every
\* half-integer k + 1/2 up to above the largest coordinate, which give every
\* threshold predicate on integer coordinates.
SplitValues(dim) ==
  {Fin(0, 1)} \cup {Fin(2 * k + 1, 2) : k \in 0..(IF dim = 1 THEN MaxCoord ELSE 1)}

\* Bounds a caller may hand to Partition: freshly reset, or already holding
\* one point.
EntryBound(dim, fresh) ==
  IF fresh THEN BoundInit(dim)
  ELSE BoundOrVec(BoundInit(dim), [d \in 1..dim |-> 1])

NoInput == [splitcond |-> HrectPartitionCondition(0, Fin(0, 1)), begin |-> 0,
            count |-> 0, points |-> <<>>, left_bound |-> <<>>, right_bound |-> <<>>]

NoPart == [pc |-> "idle", left_i |-> 0, right_i |-> 0, points |-> <<>>,
           left_bound |-> <<>>, right_bound |-> <<>>, swaps |-> 0,
           written |-> {}, ret |-> -1]

\* A stand-alone call of Partition on a range of a store of MaxN points.
InitPartition ==
  /\ entry = "Partition"
  /\ dim_ \in Dims
  /\ \E begin \in 0..MaxN : \E count \in 0..(MaxN - begin) :
     \E fresh \in BOOLEAN :
       pin \in [splitcond : {HrectPartitionCondition(d, v) :
                               d \in 0..(dim_ - 1), v \in SplitValues(dim_)},
                begin : {begin}, count : {count},
                points : Stores(dim_, MaxN),
                left_bound : {EntryBound(dim_, fresh)},
                right_bound : {EntryBound(dim_, fresh)}]
  /\ part = PartitionStart(pin.begin, pin.count, pin.points,
                           pin.left_bound, pin.right_bound)
  /\ leaf_size_ = 0 /\ chunk_size_ = 0 /\ n_points_ = 0
  /\ n_peers = 0 /\ rank = 0
  /\ points_ = <<>> /\ points0 = <<>> /\ nodes_ = <<>> /\ stack = <<>>
  /\ decomps = <<>> /\ decomp_root = 0 /\ gives = <<>>
  /\ assert_failed = FALSE /\ status = "idle"

\* Doit up to its call of Build_: the parameters are read, the bounding box
\* of the whole range is found and the root call is made with the rank
\* range [0, rpc::rank()) and a non-NULL decomposition out-pointer.
\* The store is any store of up to MaxN points in blocks of BlockSizes, or
\* the skewed store of MaxN + 1 points in blocks of one point.
InitDoit ==
  /\ entry = "Doit"
  /\ pin = NoInput /\ part = NoPart
  /\ dim_ \in Dims
  /\ leaf_size_ \in LeafSizes
  /\ n_peers \in PeerCounts
  /\ rank \in 0..(n_peers - 1)
  /\ \/ /\ chunk_size_ \in BlockSizes
        /\ n_points_ \in 1..MaxN
        /\ (dim_ > 1 => n_points_ < MaxN)
        /\ points_ \in Stores(dim_, n_points_)
     \/ /\ dim_ = 1
        /\ chunk_size_ = 1
        /\ n_points_ = MaxN + 1
        /\ points_ = SkewedStore(n_points_)
  /\ points0 = points_
  /\ nodes_ = <<>>
  /\ stack = <<BuildFrame(0, n_points_, 0, rank,
                          FindBoundingBox_(points_, 0, n_points_, BoundInit(dim_)),
                          0, TRUE)>>
  /\ decomps = <<>> /\ decomp_root = 0 /\ gives = <<>>
  /\ assert_failed = FALSE /\ status = "running"

Init == InitPartition \/ InitDoit

\* ------------------------------------------------ actions of Partition
PartitionLeftScan ==
  /\ entry = "Partition" /\ part.pc = "left_scan"
  /\ part' = LeftScan(pin.splitcond, part)
  /\ UNCHANGED <<entry, pin, buildVars>>

PartitionRightScan ==
  /\ entry = "Partition" /\ part.pc = "right_scan"
  /\ part' = RightScan(pin.splitcond, part)
  /\ UNCHANGED <<entry, pin, buildVars>>

PartitionSwap ==
  /\ entry = "Partition" /\ part.pc = "swap"
  /\ part' = SwapStep(part)
  /\ UNCHANGED <<entry, pin, buildVars>>

\* ---------------------------------------------------- actions of the build
Top == stack[Len(stack)]

SetTop(f) == [stack EXCEPT ![Len(stack)] = f]

Running == entry = "Doit" /\ status = "running" /\ stack # <<>>

\* Every index of [begin, end) is an index of the store.
InStore(begin, end) == begin >= end \/ (0 <= begin /\ end <= n_points_)

\* Decomposition children kept for a single machine as well.
ExpandsDecompSingle(f) == ~(f.end_rank - f.begin_rank <= 0)

\* The rank range of one machine or none: Split_ clears both decomposition
\* out-pointers before it recurses.
ExpandsDecomp(f) == ~(f.end_rank - f.begin_rank <= 1)

\* The frame of Split_'s first recursive call: Build_(begin_col, split_col,
\* begin_rank, split_rank, final_left_bound, node, left_decomp_pp).
LeftCall(f) ==
  BuildFrame(f.begin_col, f.split_col, f.begin_rank,
             (f.begin_rank + f.end_rank) \div 2, f.final_left_bound, f.node,
             ExpandsDecomp(f))

\* The frame of Split_'s second recursive call: Build_(split_col, end_col,
\* split_rank, end_rank, final_right_bound, node, right_decomp_pp).
RightCall(f) ==
  BuildFrame(f.split_col, f.end_col, (f.begin_rank + f.end_rank) \div 2,
             f.end_rank, f.final_right_bound, f.node, ExpandsDecomp(f))

\* The stack once the top frame has become f: when f has decided its split
\* the first recursive call is made at once.
Proceed(f) ==
  IF f.pc = "call_left"
    THEN Append(SetTop([f EXCEPT !.pc = "in_left"]), LeftCall(f))
    ELSE SetTop(f)

\* The decomposition node Build_ creates, with the children Split_ left in
\* left_decomp and right_decomp.
NewDecomp(f) ==
  [begin_rank |-> f.begin_rank,
   end_rank |-> f.end_rank,
   node |-> f.node,
   child |-> IF f.left_decomp # 0 THEN <<f.left_decomp, f.right_decomp>>
             ELSE <<0, 0>>]

\* A tail of Build_ that post-processes the parent as well.
FinishNodesPostprocessesParent(nodes, f, which) ==
  [i \in 1..Len(nodes) |->
     IF i = f.node
       THEN [nodes[i] EXCEPT !.post = nodes[i].post + 1,
                              !.post_at = nodes[i].folds]
     ELSE IF i = f.parent
       THEN [nodes[i] EXCEPT !.stat = nodes[i].stat + nodes[f.node].stat,
                              !.folds = nodes[i].folds + 1,
                              !.post = nodes[i].post + 1,
                              !.post_at = nodes[i].folds + 1,
                              !.child[which] = f.node]
     ELSE nodes[i]]

\* The node store after the tail of Build_ for frame f: the node's
\* statistic is accumulated into the parent's, then the node is
\* post-processed, and the caller (Split_ of the parent) records the
\* returned node as child number which.
FinishNodes(nodes, f, which) ==
  [i \in 1..Len(nodes) |->
     IF i = f.node
       THEN [nodes[i] EXCEPT !.post = nodes[i].post + 1,
                              !.post_at = nodes[i].folds]
     ELSE IF i = f.parent
       THEN [nodes[i] EXCEPT !.stat = nodes[i].stat + nodes[f.node].stat,
                              !.folds = nodes[i].folds + 1,
                              !.child[which] = f.node]
     ELSE nodes[i]]

\* Build_ from the accumulation into the parent to its return, for the top
\* frame f with its node already in nodes, and the caller's next step:
\* Split_ records the child and, after the first child, makes the second
\* recursive call; after the second it returns into its own Build_.  Doit
\* receives the root's decomposition node.
Return(f, nodes) ==
  LET rest == SubSeq(stack, 1, Len(stack) - 1)
      made == IF f.decomp_pp THEN Len(decomps) + 1 ELSE 0
      c == rest[Len(rest)]
      left == c.pc = "in_left"
  IN /\ decomps' = IF f.decomp_pp THEN Append(decomps, NewDecomp(f)) ELSE decomps
     /\ IF rest = <<>>
          THEN /\ nodes_' = FinishNodes(nodes, f, 1)
               /\ stack' = rest
               /\ decomp_root' = made
               /\ status' = "done"
          ELSE /\ nodes_' = FinishNodes(nodes, f, IF left THEN 1 ELSE 2)
               /\ stack' =
                    IF left
                      THEN Append([rest EXCEPT ![Len(rest)] =
                                     [c EXCEPT !.left_decomp = made,
                                               !.pc = "in_right"]],
                                  RightCall(c))
                      ELSE [rest EXCEPT ![Len(rest)] =
                              [c EXCEPT !.right_decomp = made,
                                        !.pc = "finish"]]
               /\ UNCHANGED <<decomp_root, status>>

\* Whether this call of Build_ takes the leaf branch.  The node is allocated
\* and its count() is compared with leaf_size_ before set_range has run, so
\* the comparison reads whatever the fresh node holds (stale_count).
LeafDecision(stale_count, begin_col, end_col) == stale_count <= leaf_size_

\* A whole call of Build_ that takes the leaf branch: the node is allocated
\* and filled, marked a leaf, the same-block assertion is evaluated, every
\* point of the range is accumulated, and the call finishes and returns.
\* Reading a point outside the store ends the build.
Build_Leaf ==
  /\ Running /\ Top.pc = "Build_"
  /\ \E stale_count \in StaleCounts :
       LET f == Top
           node_i == Len(nodes_) + 1
           node == NewNode(f.begin_col, f.end_col, f.bound, f.parent, f.begin_rank)
           end == node.begin + node.count
       IN /\ LeafDecision(stale_count, f.begin_col, f.end_col)
          /\ IF InStore(node.begin, end)
               THEN /\ assert_failed' =
                         (assert_failed \/ ~SameBlock(node.begin, end, chunk_size_))
                    /\ Return([f EXCEPT !.node = node_i],
                              Append(nodes_, [node EXCEPT !.leaf = TRUE,
                                                          !.stat = Max(node.count, 0),
                                                          !.folds = Max(node.count, 0)]))
               ELSE /\ nodes_' = Append(nodes_, [node EXCEPT !.leaf = TRUE])
                    /\ status' = "crashed"
                    /\ UNCHANGED <<assert_failed, stack, decomps, decomp_root>>
  /\ UNCHANGED <<config, points_, gives>>

\* A call of Build_ that takes the non-leaf branch, up to the first result
\* of Split_: the node is allocated and filled, the widest dimension is
\* found, Split_ transfers ownership and then either runs the whole
\* single-partition path (and makes the first recursive call) or computes
\* the goal and enters the goal-seeking loop.
\* With split_dim = BIG_BAD_NUMBER, bound().get(split_dim) reads far outside
\* the bound: the build dies there ("crashed": the bounds check of a debug
\* build, or a fault) or goes on with whatever it read ("undefined"); what
\* an undefined build does next is not followed.
Build_Split ==
  /\ Running /\ Top.pc = "Build_"
  /\ Len(nodes_) < MaxNodes
  /\ \E stale_count \in StaleCounts :
       LET node_i == Len(nodes_) + 1
           node == NewNode(Top.begin_col, Top.end_col, Top.bound, Top.parent,
                           Top.begin_rank)
           begin == node.begin
           end == node.begin + node.count
           split_dim == WidestDimension(node.bound)
           parent_begin == IF Top.parent = 0 THEN -1 ELSE nodes_[Top.parent].begin
           f == [Top EXCEPT !.node = node_i, !.split_dim = split_dim, !.pc = "Split_"]
       IN /\ ~LeafDecision(stale_count, Top.begin_col, Top.end_col)
          /\ nodes_' = Append(nodes_, node)
          /\ IF split_dim = BIG_BAD_NUMBER
               THEN /\ status' \in {"crashed", "undefined"}
                    /\ stack' = SetTop(f)
                    /\ UNCHANGED <<gives, points_>>
               ELSE /\ gives' = IF GivesOwnership(begin, parent_begin, chunk_size_)
                                  THEN Append(gives, [block |-> begin \div chunk_size_,
                                                      rank |-> f.begin_rank,
                                                      node |-> node_i])
                                  ELSE gives
                    /\ IF ~InStore(begin, end)
                         THEN /\ status' = "crashed"
                              /\ stack' = SetTop(f)
                              /\ UNCHANGED points_
                         ELSE LET g == [f EXCEPT !.current_range = node.bound[split_dim + 1]]
                              IN /\ UNCHANGED status
                                 /\ IF node.count <= chunk_size_
                                      THEN LET r == SplitSmall(g, begin, end, points_)
                                           IN /\ stack' = Proceed(r.frame)
                                              /\ points_' = r.points
                                      ELSE /\ stack' = SetTop(
                                                [g EXCEPT !.goal_col =
                                                            GoalCol(begin, end, f.begin_rank,
                                                                    f.end_rank, n_points_,
                                                                    n_peers, chunk_size_),
                                                          !.pc = "loop"])
                                           /\ UNCHANGED points_
  /\ UNCHANGED <<config, decomps, decomp_root, assert_failed>>

\* One iteration of the goal-seeking loop of Split_; the iteration that
\* breaks out of the loop makes the first recursive call.
Split_Loop ==
  /\ Running /\ Top.pc = "loop"
  /\ LET r == SplitIterate(Top, points_)
     IN /\ stack' = Proceed(r.frame)
        /\ points_' = r.points
  /\ UNCHANGED <<config, nodes_, decomps, decomp_root, gives, assert_failed, status>>

\* The tail of a non-leaf call of Build_, after Split_ has returned.
Build_Finish ==
  /\ Running /\ Top.pc = "finish"
  /\ Return(Top, nodes_)
  /\ UNCHANGED <<config, points_, gives, assert_failed>>

Next ==
  \/ PartitionLeftScan
  \/ PartitionRightScan
  \/ PartitionSwap
  \/ Build_Leaf
  \/ Build_Split
  \/ Split_Loop
  \/ Build_Finish

Spec == Init /\ [][Next]_vars

\* ================================================================ claims
\* Indices i of [lo, hi) of a store.
Range(lo, hi) == lo..(hi - 1)

\* The two stores hold the same points, each as often, in [lo, hi).
SameMultiset(a, b, lo, hi) ==
  \A i \in Range(lo, hi) :
    Cardinality({j \in Range(lo, hi) : a[j + 1] = a[i + 1]})
      = Cardinality({j \in Range(lo, hi) : b[j + 1] = a[i + 1]})

\* The arguments of the stand-alone Partition call.
PBegin == pin.begin
PEnd == pin.begin + pin.count
PLeft(points, i) == is_left(pin.splitcond, points[i + 1])

Returned == entry = "Partition" /\ part.pc = "return"

\* C1: when Partition returns splitIndex, begin <= splitIndex <= begin+count,
\* every index of [begin, splitIndex) holds a point satisfying the predicate
\* and every index of [splitIndex, begin+count) a point that does not; an
\* empty range returns begin, an all-satisfying range begin+count and a
\* none-satisfying range begin.
C1_PartitionPostcondition ==
  Returned =>
    /\ PBegin <= part.ret /\ part.ret <= PEnd
    /\ \A i \in Range(PBegin, part.ret) : PLeft(part.points, i)
    /\ \A i \in Range(part.ret, PEnd) : ~PLeft(part.points, i)
    /\ (pin.count = 0 => part.ret = PBegin)
    /\ ((\A i \in Range(PBegin, PEnd) : PLeft(pin.points, i)) => part.ret = PEnd)
    /\ ((\A i \in Range(PBegin, PEnd) : ~PLeft(pin.points, i)) => part.ret = PBegin)

\* C1 witness: a call that had to swap returned a split strictly inside its
\* range.
C1_Witness ==
  Returned /\ part.swaps > 0 /\ PBegin < part.ret /\ part.ret < PEnd

\* The input range is already partitioned with its boundary at s.
InputPartitionedAt(s) ==
  /\ \A i \in Range(PBegin, s) : PLeft(pin.points, i)
  /\ \A i \in Range(s, PEnd) : ~PLeft(pin.points, i)

\* C5: on a range that is already partitioned for the predicate, with the
\* boundary at s, Partition makes no Swap call, leaves the store as it was
\* and returns s.
C5_RepartitionIdempotent ==
  entry = "Partition" =>
    \A s \in PBegin..PEnd :
      InputPartitionedAt(s) =>
        /\ part.swaps = 0
        /\ part.points = pin.points
        /\ (part.pc = "return" => part.ret = s)

\* C5 witness: a partitioned range with points on both sides of the boundary
\* has been re-partitioned.
C5_Witness ==
  /\ Returned
  /\ \E s \in (PBegin + 1)..(PEnd - 1) : InputPartitionedAt(s)

\* C10: Partition and the build only permute points.  During and after a
\* Partition call the range holds the multiset of points it held on entry,
\* every index written lies in the range and every index outside it holds
\* what it held; during and after a build the store holds the multiset of
\* points Doit was given.
C10_OnlyPermutes ==
  /\ entry = "Partition" =>
       /\ SameMultiset(pin.points, part.points, PBegin, PEnd)
       /\ SameMultiset(part.points, pin.points, PBegin, PEnd)
       /\ part.written \subseteq Range(PBegin, PEnd)
       /\ \A i \in Range(0, Len(pin.points)) \ Range(PBegin, PEnd) :
            part.points[i + 1] = pin.points[i + 1]
  /\ entry = "Doit" =>
       /\ Len(points_) = Len(points0)
       /\ SameMultiset(points0, points_, 0, n_points_)
       /\ SameMultiset(points_, points0, 0, n_points_)

\* C10 witness: a finished build has moved points.
C10_Witness ==
  entry = "Doit" /\ status = "done" /\ points_ # points0

\* ---------------------------------------------------------- the built tree
NodeIds == 1..Len(nodes_)

NodeEnd(n) == n.begin + n.count

HasBothChildren(n) == n.child[1] # 0 /\ n.child[2] # 0

Built == entry = "Doit" /\ status = "done"

\* The axis-aligned bounding box of the points now stored in the node's range.
BoundingBox(n) == FindBoundingBox_(points_, n.begin, n.count, BoundInit(dim_))

\* C2: the two children of every non-leaf node cover its index range
\* contiguously and disjointly: child0.begin = node.begin,
\* child0.end = child1.begin and child1.end = node.end.
C2_ChildrenCoverNode ==
  \A i \in NodeIds :
    LET n == nodes_[i] IN
      HasBothChildren(n) =>
        /\ nodes_[n.child[1]].begin = n.begin
        /\ NodeEnd(nodes_[n.child[1]]) = nodes_[n.child[2]].begin
        /\ NodeEnd(nodes_[n.child[2]]) = NodeEnd(n)

\* C3: in a built tree every node's bound is exactly the bounding box of the
\* points stored in its range.
C3_BoundsExact ==
  Built => \A i \in NodeIds : nodes_[i].bound = BoundingBox(nodes_[i])

\* C4: in a built tree every leaf has at most leaf_size points and its first
\* and last index lie in one storage block, and no leaf assertion failed.
C4_LeavesSmallInOneBlock ==
  Built =>
    /\ ~assert_failed
    /\ \A i \in NodeIds :
         nodes_[i].leaf =>
           /\ nodes_[i].count <= leaf_size_
           /\ nodes_[i].begin \div chunk_size_
                = (NodeEnd(nodes_[i]) - 1) \div chunk_size_

\* The storage blocks of the built index range.
Blocks == 0..((n_points_ - 1) \div chunk_size_)

GivesOf(b) == {k \in 1..Len(gives) : gives[k].block = b}

\* C6: over a complete build every storage block of the range is given away
\* exactly once, by a node that begins on the block's first index and whose
\* parent is absent or begins elsewhere, to that node's begin_rank.
C6_OwnershipOncePerBlock ==
  Built =>
    \A b \in Blocks :
      /\ Cardinality(GivesOf(b)) = 1
      /\ \A k \in GivesOf(b) :
           LET n == nodes_[gives[k].node] IN
             /\ n.begin = b * chunk_size_
             /\ (n.parent = 0 \/ nodes_[n.parent].begin # n.begin)
             /\ gives[k].rank = n.owner

\* Every point of the store has the same coordinate vector.
AllIdentical == \A i \in 1..Len(points0) : points0[i] = points0[1]

\* C7: when all points are identical the build does not die, and in the
\* built tree every leaf has at most leaf_size points and the zero-width
\* bound at the common coordinate.
C7_IdenticalPointsBuild ==
  (entry = "Doit" /\ AllIdentical) =>
    /\ status \in {"running", "done"}
    /\ Built =>
         \A i \in NodeIds :
           nodes_[i].leaf =>
             /\ nodes_[i].count <= leaf_size_
             /\ nodes_[i].bound = BoundOrVec(BoundInit(dim_), points0[1])

\* ------------------------------------------------------------ the goal
\* s * n / p rounded to the nearest integer, halves up.
RoundedShare(s, n, p) ==
  CHOOSE r \in 0..n : 2 * p * r - p <= 2 * s * n /\ 2 * s * n < 2 * p * r + p

\* The multiple of c nearest to g, halves up.
NearestMultiple(g, c) ==
  CHOOSE m \in {k * c : k \in 0..(n_points_ + 1)} :
    2 * m - c <= 2 * g /\ 2 * g < 2 * m + c

\* The goal of a node with the given rank range; single tells whether the
\* rank range counts as one machine.
GoalOf(n, begin_rank, end_rank, single) ==
  NearestMultiple(IF single
                    THEN (n.begin + NodeEnd(n)) \div 2
                    ELSE RoundedShare((begin_rank + end_rank) \div 2,
                                      n_points_, n_peers),
                  chunk_size_)

\* The frames whose Split_ has decided where to divide a node of more than
\* chunk_size points.
Divided(f) ==
  /\ f.pc \in {"in_left", "in_right", "finish"}
  /\ nodes_[f.node].count > chunk_size_

\* The node of frame f is divided at index g: split_col is g, and so are the
\* end of its first child and the begin of its second, once they exist.
DividedAt(f, g) ==
  LET n == nodes_[f.node] IN
    /\ f.split_col = g
    /\ (n.child[1] # 0 => NodeEnd(nodes_[n.child[1]]) = g)
    /\ (n.child[2] # 0 => nodes_[n.child[2]].begin = g)

\* C8 as stated: the goal is the index midpoint when the rank range has
\* exactly one machine and the rounded share otherwise.
C8_SplitAtGoalOneMachine ==
  \A k \in 1..Len(stack) :
    LET f == stack[k] IN
      Divided(f) =>
        DividedAt(f, GoalOf(nodes_[f.node], f.begin_rank, f.end_rank,
                            f.end_rank - f.begin_rank = 1))

\* C8 amended: every node of more than chunk_size points is divided at the
\* goal index, the goal being the index midpoint when the rank range has at
\* most one machine (end_rank <= begin_rank + 1, an empty rank range
\* included) and the rounded share of the global point count otherwise, in
\* both cases rounded to the nearest multiple of chunk_size.
C8_SplitAtGoal ==
  \A k \in 1..Len(stack) :
    LET f == stack[k] IN
      Divided(f) =>
        DividedAt(f, GoalOf(nodes_[f.node], f.begin_rank, f.end_rank,
                            f.end_rank - f.begin_rank <= 1))

\* C8 witness: a node of more than chunk_size points has been divided after
\* the loop had narrowed its working range.
C8_Witness ==
  \E k \in 1..Len(stack) :
    /\ Divided(stack[k])
    /\ \/ stack[k].begin_col # nodes_[stack[k].node].begin
       \/ stack[k].end_col # NodeEnd(nodes_[stack[k].node])

\* ------------------------------------------------ the decomposition tree
DecompIds == 1..Len(decomps)

HasDecompChildren(d) == d.child # <<0, 0>>

Machines(d) == d.end_rank - d.begin_rank

C11_LeafIffSmall ==
  entry = "Doit" =>
    \A i \in NodeIds : nodes_[i].leaf <=> (nodes_[i].count <= leaf_size_)

\* ------------------------------------------------------- the build order
\* The nodes built by calls Build_ made with node p as parent, in call order.
BuiltUnder(p) == {c \in NodeIds : nodes_[c].parent = p}

\* The call of Build_ that allocated node i has run to its end.
Complete(i) == nodes_[i].post = 1

\* C12: the build follows one order.  The second Build_ call of a node
\* begins only when the first child and everything built under it is
\* complete; a child is folded into its parent's statistic only once its own
\* accumulations are over and everything built under it is complete; every
\* node is post-processed at most once, after every accumulation into its
\* statistic (count raw points for a leaf, both children otherwise), and
\* exactly once in a finished build.
C12_BuildOrder ==
  entry = "Doit" =>
    /\ \A i \in NodeIds :
         LET n == nodes_[i] IN
           /\ n.post <= 1
           /\ n.folds = IF n.leaf THEN (IF Complete(i) THEN n.count ELSE 0)
                        ELSE Cardinality({c \in BuiltUnder(i) : Complete(c)})
           /\ Complete(i) =>
                /\ n.post_at = n.folds
                /\ n.leaf \/ n.folds = 2
                /\ \A c \in BuiltUnder(i) : Complete(c)
           /\ \A c, d \in BuiltUnder(i) : c < d => Complete(c)
           /\ Cardinality(BuiltUnder(i)) <= 2
    /\ \A k \in 2..Len(stack) :
         (stack[k].pc = "Build_" /\ stack[k - 1].pc = "in_right") =>
           /\ nodes_[stack[k - 1].node].child[1] # 0
           /\ Complete(nodes_[stack[k - 1].node].child[1])
    /\ Built => \A i \in NodeIds : Complete(i)

\* C12 witness: a finished build in which a child of the root was itself
\* split, so that a whole subtree was folded into the root.
C12_Witness ==
  /\ Built
  /\ \E i, j \in NodeIds :
       /\ HasBothChildren(nodes_[i]) /\ HasBothChildren(nodes_[j])
       /\ nodes_[j].parent = i
       /\ nodes_[i].stat = n_points_

\* -------------------------------------------------- the goal-seeking loop
\* The frame an iteration of the goal-seeking loop leaves, for the frame now
\* at the head of the loop.
AfterIteration == SplitIterate(Top, points_).frame

AtLoopHead == Running /\ Top.pc = "loop"

\* C13: every iteration of Split_'s goal-seeking loop that does not exit the
\* loop strictly shrinks the working range [begin_col, end_col): begin_col
\* strictly increases or end_col strictly decreases, and the goal stays
\* inside the range.
C13_LoopShrinks ==
  AtLoopHead =>
    (AfterIteration.pc = "loop" =>
       /\ \/ AfterIteration.begin_col > Top.begin_col
          \/ AfterIteration.end_col < Top.end_col
       /\ AfterIteration.begin_col <= Top.goal_col
       /\ Top.goal_col <= AfterIteration.end_col)

\* --------------------------------------------------- the bounds of Partition
\* bound joined with every point of [i, end) of the store that is on the
\* given side of the predicate (side = TRUE: satisfies it).
RECURSIVE FoldWhere(_, _, _, _, _)
FoldWhere(points, i, end, side, bound) ==
  IF i >= end THEN bound
  ELSE FoldWhere(points, i + 1, end, side,
                 IF PLeft(points, i) = side
                   THEN BoundOrVec(bound, points[i + 1])
                   ELSE bound)

\* Bound b lies within bound c.
Within(b, c) == BoundOr(c, b) = c

\* C14: Partition folds every point of the range into exactly the bound of
\* the side it ends on.  When it returns s, left_bound is its value on entry
\* joined with the bounding box of the points now in [begin, s) and
\* right_bound its value on entry joined with the bounding box of the points
\* now in [s, begin+count); at no time does left_bound hold a point failing
\* the predicate or right_bound a point satisfying it.
C14_BoundsFoldSides ==
  entry = "Partition" =>
    /\ Within(part.left_bound,
              FoldWhere(pin.points, PBegin, PEnd, TRUE, pin.left_bound))
    /\ Within(part.right_bound,
              FoldWhere(pin.points, PBegin, PEnd, FALSE, pin.right_bound))
    /\ Returned =>
         /\ part.left_bound =
              FindBoundingBox_(part.points, PBegin, part.ret - PBegin,
                               pin.left_bound)
         /\ part.right_bound =
              FindBoundingBox_(part.points, part.ret, PEnd - part.ret,
                               pin.right_bound)

\* C14 witness: a call that was handed bounds already holding a point has
\* swapped and returned with points on both sides, and both bounds grew.
C14_Witness ==
  /\ Returned /\ part.swaps > 0
  /\ PBegin < part.ret /\ part.ret < PEnd
  /\ pin.left_bound # BoundInit(dim_)
  /\ part.left_bound # pin.left_bound
  /\ part.right_bound # pin.right_bound

\* ----------------------------------------------------------- the split axis
\* The frames whose Build_ has called Split_.
InSplit(f) == f.pc \in {"Split_", "loop", "in_left", "in_right", "finish"}

\* C15: the split axis handed to Split_ is a dimension index d of [0, dim)
\* whose width in the node's bound is the largest of all dimensions, the
\* lowest such d on ties; BIG_BAD_NUMBER never reaches Split_.
C15_SplitAxisValid ==
  \A k \in 1..Len(stack) :
    LET f == stack[k]
        b == nodes_[f.node].bound
    IN InSplit(f) =>
         /\ f.split_dim # BIG_BAD_NUMBER
         /\ f.split_dim \in 0..(dim_ - 1)
         /\ \A d \in 0..(dim_ - 1) :
              /\ width(b[d + 1]) <= width(b[f.split_dim + 1])
              /\ (width(b[d + 1]) = width(b[f.split_dim + 1])
                    => f.split_dim <= d)

\* ------------------------------------------------- the cursors after a swap
AtSwap == entry = "Partition" /\ part.pc = "swap"

\* C16 as stated: after the two halted elements are swapped both cursors
\* step inward, the left cursor advanced by one and the right cursor
\* retreated by one, before the next scan.
C16_BothCursorsStep ==
  [][AtSwap => /\ part'.left_i = part.left_i + 1
               /\ part'.right_i = part.right_i - 1]_vars

\* C16 amended: after the swap only the right cursor steps inward.  The left
\* cursor stays on the swapped position, which is still inside the cursors
\* and now holds a point satisfying the predicate, so the next left scan
\* reads that point once more and passes it.
C16_RightCursorSteps ==
  [][AtSwap => /\ part'.left_i = part.left_i
               /\ part'.right_i = part.right_i - 1
               /\ part'.pc = "left_scan"
               /\ part'.left_i <= part'.right_i
               /\ PLeft(part'.points, part'.left_i)]_vars

\* C16 witness: a swap has been made and the left scan is about to read the
\* position it wrote.
C16_Witness ==
  /\ entry = "Partition" /\ part.pc = "left_scan"
  /\ part.swaps > 0
  /\ part.left_i \in part.written
  /\ part.left_i <= part.right_i

====
